---- MODULE Spec2Model ----
(***************************************************************************)
(* Model of the migration subsystem of docker-sqlite (src/src/migrate.ts)  *)
(* on top of the statement executor (src/src/query.ts) and the sql.js      *)
(* engine handle declared in src/src/types.ts.                             *)
(*                                                                         *)
(* The engine state of one Database handle is a record                     *)
(*   tables    : the user tables that exist (sqlite_master),               *)
(*   hasLedger : whether the _migrations table exists,                     *)
(*   ledger    : the rows of _migrations, in the order they were inserted  *)
(*               (the order of their applied_at timestamps).               *)
(* A script is a sequence of statements; db.exec runs them one by one in   *)
(* autocommit mode, so the statements before a failing one keep their      *)
(* effect.                                                                 *)
(* Migration scripts act on user tables only; none of them reads or        *)
(* changes the _migrations table.  A call is one step; the step Continue   *)
(* is its caller going on after the call returned or threw.                *)
(***************************************************************************)
EXTENDS Integers, Sequences, FiniteSets, TLC

\* ---------------------------------------------------------------- bounds
\* Longest declared migration list passed to one call.
MaxLen == 3

\* ---------------------------------------------------------------- values
\* A Migration without a usable down script: `down` is absent or the empty
\* string, the two values for which `!migration.down` holds.
NoDown == <<>>

\* No error was thrown.
NoError == [message |-> "", version |-> 0, description |-> "", cause |-> ""]

\* The versions of the declared migrations: positive integers.
Versions == 1 .. 3

\* Table names: table v is the one the regular migration of version v
\* creates, table 0 is the one the alternative migration of version 1
\* creates.
Tables == 0 .. 3

CreateTable(t) == [op |-> "CREATE TABLE", t |-> t]
DropTable(t) == [op |-> "DROP TABLE", t |-> t]
\* A statement the engine rejects (malformed SQL).
Malformed == [op |-> "MALFORMED", t |-> 0]

\* ------------------------------------------------- declared migrations
\* createMigration(version, description, up, down?)
createMigration(version, description, up, down) ==
  [version |-> version, description |-> description, up |-> up, down |-> down]

\* A migration with a working up and down script.
Good(v) == createMigration(v, "create", <<CreateTable(v)>>, <<DropTable(v)>>)

\* Same version as Good(1), another up script, and a down script that
\* fails on its second statement.
Alt == createMigration(1, "alt", <<CreateTable(0)>>, <<DropTable(0), Malformed>>)

\* A two-statement up script whose second statement is invalid SQL.
BadUp == createMigration(2, "bad", <<CreateTable(2), Malformed>>, <<DropTable(2)>>)

\* A migration without a down script, with the version and the up script of
\* Good(3).
Irreversible == createMigration(3, "nodown", <<CreateTable(3)>>, NoDown)

\* The migrations a caller declares lists of.
Catalogue == {Good(v) : v \in Versions} \cup {Alt, BadUp, Irreversible}

\* The declared lists: every sequence of up to MaxLen different migrations of
\* the catalogue, in any order (versions may repeat: Good(1) and Alt).
DeclaredLists ==
  UNION {{s \in [1 .. n -> Catalogue] : \A i, j \in 1 .. n : s[i] = s[j] => i = j}
         : n \in 0 .. MaxLen}

\* ------------------------------------------------------------- engine
\* A fresh `new SQL.Database()`.
EmptyDb == [tables |-> {}, hasLedger |-> FALSE, ledger |-> <<>>]

\* One statement of a script against the user tables: the new tables, or the
\* engine's error.
ExecStatement(tables, st) ==
  CASE st.op = "CREATE TABLE" ->
         IF st.t \in tables
           THEN [tables |-> tables, err |-> "table already exists"]
           ELSE [tables |-> tables \cup {st.t}, err |-> ""]
    [] st.op = "DROP TABLE" ->
         IF st.t \in tables
           THEN [tables |-> tables \ {st.t}, err |-> ""]
           ELSE [tables |-> tables, err |-> "no such table"]
    [] OTHER -> [tables |-> tables, err |-> "syntax error"]

\* db.exec(sql): the statements run in order, each committed on its own; the
\* first failing statement raises and the earlier ones keep their effect.
RECURSIVE Exec(_, _)
Exec(tables, sql) ==
  IF sql = <<>> THEN [tables |-> tables, err |-> ""]
  ELSE LET r == ExecStatement(tables, Head(sql))
       IN IF r.err # "" THEN r ELSE Exec(r.tables, Tail(sql))

\* Mutant of execMultiple: the engine's error is caught and dropped.
execMultipleSwallows(db, sql) ==
  [db |-> [db EXCEPT !.tables = Exec(db.tables, sql).tables], err |-> ""]

\* execMultiple(db, sql) on the user tables of db.
execMultiple(db, sql) ==
  LET r == Exec(db.tables, sql)
  IN [db |-> [db EXCEPT !.tables = r.tables], err |-> r.err]

\* tableExists(db, tableName) for a user table: the lookup in sqlite_master.
tableExists(db, tableName) == tableName \in db.tables

\* Mutant of ensureMigrationsTable: DROP TABLE IF EXISTS, then CREATE TABLE.
RecreateMigrationsTable(db) == [db EXCEPT !.hasLedger = TRUE, !.ledger = <<>>]

\* ensureMigrationsTable: CREATE TABLE IF NOT EXISTS _migrations.
ensureMigrationsTable(db) == [db EXCEPT !.hasLedger = TRUE]

\* The versions the ledger holds.
LedgerVersions(db) == {db.ledger[i].version : i \in 1 .. Len(db.ledger)}

\* Mutant of InsertLedger: the row is not written.
InsertNothing(db, m) == [db |-> db, err |-> ""]

\* Mutant of InsertLedger: _migrations has no primary key.
InsertLedgerNoKey(db, m) ==
  [db |-> [db EXCEPT !.ledger =
              Append(@, [version |-> m.version, description |-> m.description])],
   err |-> ""]

\* execute(db, "INSERT INTO _migrations (version, description) VALUES (?, ?)"):
\* version is the primary key, a second row with the same version is refused.
InsertLedger(db, m) ==
  IF m.version \in LedgerVersions(db)
    THEN [db |-> db, err |-> "UNIQUE constraint failed: _migrations.version"]
    ELSE [db |-> [db EXCEPT !.ledger =
                     Append(@, [version |-> m.version, description |-> m.description])],
          err |-> ""]

\* Mutant of DeleteLedger: the oldest row is deleted.
DeleteOldest(db, version) ==
  [db EXCEPT !.ledger = IF @ = <<>> THEN <<>> ELSE Tail(@)]

\* Mutant of DeleteLedger: no row is deleted.
DeleteNothing(db, version) == db

\* Mutant of DeleteLedger: the WHERE clause is missing.
DeleteEverything(db, version) == [db EXCEPT !.ledger = <<>>]

\* execute(db, "DELETE FROM _migrations WHERE version = ?").
DeleteLedger(db, version) ==
  [db EXCEPT !.ledger = SelectSeq(@, LAMBDA e : e.version # version)]

\* ------------------------------------------------------------ sorting
\* Array.prototype.sort((a, b) => a - b) on numbers: ascending (insertion
\* sort).
RECURSIVE InsertNumber(_, _)
InsertNumber(s, x) ==
  IF s = <<>> THEN <<x>>
  ELSE IF x < Head(s) THEN <<x>> \o s
  ELSE <<Head(s)>> \o InsertNumber(Tail(s), x)

\* Mutant of SortNumbers: the versions stay in the order they were read.
KeepOrderRead(s) == s

RECURSIVE SortNumbers(_)
SortNumbers(s) ==
  IF s = <<>> THEN <<>>
  ELSE InsertNumber(SortNumbers(SubSeq(s, 1, Len(s) - 1)), s[Len(s)])

\* Array.prototype.sort((a, b) => a.version - b.version) on migrations: a
\* stable ascending sort, equal versions keep their declared order.
RECURSIVE InsertMigration(_, _)
InsertMigration(s, m) ==
  IF s = <<>> THEN <<m>>
  ELSE IF m.version < Head(s).version THEN <<m>> \o s
  ELSE <<Head(s)>> \o InsertMigration(Tail(s), m)

\* Mutant of SortByVersion: the declared order is reversed.
ReverseDeclared(s) == [i \in 1 .. Len(s) |-> s[Len(s) + 1 - i]]

\* Mutant of SortByVersion: the migrations stay in their declared order.
KeepDeclaredOrder(s) == s

RECURSIVE SortByVersion(_)
SortByVersion(s) ==
  IF s = <<>> THEN <<>>
  ELSE InsertMigration(SortByVersion(SubSeq(s, 1, Len(s) - 1)), s[Len(s)])

\* Mutant of SelectVersions: no row is read.
SelectNoVersions(db) == <<>>

\* query(db, "SELECT version FROM _migrations ORDER BY version").rows
SelectVersions(db) ==
  LET rows == [i \in 1 .. Len(db.ledger) |-> db.ledger[i].version]
  IN SortNumbers(rows)

\* [...new Set(rows)]: the first occurrence of every value, in order.
RECURSIVE Dedup(_)
Dedup(s) ==
  IF s = <<>> THEN <<>>
  ELSE LET front == Dedup(SubSeq(s, 1, Len(s) - 1))
           x == s[Len(s)]
       IN IF \E i \in 1 .. Len(front) : front[i] = x THEN front ELSE Append(front, x)

\* --------------------------------------------------------- migrate.ts
\* Mutant of CurrentVersion: the length test is off by one.
CurrentVersionOffByOne(appliedMigrations) ==
  IF Len(appliedMigrations) > 1
    THEN appliedMigrations[Len(appliedMigrations)]
    ELSE 0

\* Mutant of CurrentVersion: the first element instead of the last.
FirstVersion(appliedMigrations) ==
  IF Len(appliedMigrations) > 0 THEN appliedMigrations[1] ELSE 0

\* currentVersion: the last element of the sorted applied versions, 0 when
\* there is none.
CurrentVersion(appliedMigrations) ==
  IF Len(appliedMigrations) > 0
    THEN appliedMigrations[Len(appliedMigrations)]
    ELSE 0

\* Mutant of Pending: the applied versions are not filtered out.
PendingUnfiltered(migrations, appliedVersions) == SortByVersion(migrations)

\* pendingMigrations: the declared migrations whose version is not applied,
\* sorted by version.
Pending(migrations, appliedVersions) ==
  LET has(v) == \E i \in 1 .. Len(appliedVersions) : appliedVersions[i] = v
  IN SortByVersion(SelectSeq(migrations, LAMBDA m : ~has(m.version)))

\* getMigrationStatus(db, migrations): the status it returns (db is the
\* engine state after ensureMigrationsTable).
getMigrationStatus(db, migrations) ==
  LET appliedVersions == Dedup(SelectVersions(db))
      appliedMigrations == SortNumbers(appliedVersions)
  IN [currentVersion |-> CurrentVersion(appliedMigrations),
      appliedMigrations |-> appliedMigrations,
      pendingMigrations |-> Pending(migrations, appliedVersions)]

\* One engine call made on behalf of migration m, and how it ended.
Event(e, m, err) == [e |-> e, m |-> m, err |-> err]

\* Mutant of ApplyError: the engine's error is rethrown as it is.
ApplyErrorBare(m, cause) ==
  [message |-> cause, version |-> 0, description |-> "", cause |-> cause]

\* The error runMigrations throws when applying m failed with cause.
ApplyError(m, cause) ==
  [message |-> "Failed to apply migration", version |-> m.version,
   description |-> m.description, cause |-> cause]

\* Mutant of ApplyPending: a failing migration is skipped and the loop goes
\* on with the next one.
RECURSIVE ApplyPendingSkipFailed(_, _, _, _)
ApplyPendingSkipFailed(db, pending, applied, trace) ==
  IF pending = <<>>
    THEN [db |-> db, threw |-> FALSE, error |-> NoError,
          applied |-> applied, trace |-> trace]
  ELSE
    LET migration == Head(pending)
        up == execMultiple(db, migration.up)
        afterUp == Append(trace, Event("up", migration, up.err))
    IN IF up.err # ""
         THEN ApplyPendingSkipFailed(up.db, Tail(pending), applied, afterUp)
       ELSE
         LET ins == InsertLedger(up.db, migration)
             afterInsert == Append(afterUp, Event("insert", migration, ins.err))
         IN IF ins.err # ""
              THEN ApplyPendingSkipFailed(ins.db, Tail(pending), applied, afterInsert)
              ELSE ApplyPendingSkipFailed(ins.db, Tail(pending),
                                          Append(applied, migration), afterInsert)

\* Mutant of ApplyPending: `applied` is overwritten instead of pushed to, so
\* only the last migration is returned.
RECURSIVE ApplyPendingKeepsLast(_, _, _, _)
ApplyPendingKeepsLast(db, pending, applied, trace) ==
  IF pending = <<>>
    THEN [db |-> db, threw |-> FALSE, error |-> NoError,
          applied |-> applied, trace |-> trace]
  ELSE
    LET migration == Head(pending)
        up == execMultiple(db, migration.up)
        afterUp == Append(trace, Event("up", migration, up.err))
    IN IF up.err # ""
         THEN [db |-> up.db, threw |-> TRUE, error |-> ApplyError(migration, up.err),
               applied |-> applied, trace |-> afterUp]
       ELSE
         LET ins == InsertLedger(up.db, migration)
             afterInsert == Append(afterUp, Event("insert", migration, ins.err))
         IN IF ins.err # ""
              THEN [db |-> ins.db, threw |-> TRUE,
                    error |-> ApplyError(migration, ins.err),
                    applied |-> applied, trace |-> afterInsert]
              ELSE ApplyPendingKeepsLast(ins.db, Tail(pending),
                                         <<migration>>, afterInsert)

\* The loop of runMigrations over the pending migrations.
RECURSIVE ApplyPending(_, _, _, _)
ApplyPending(db, pending, applied, trace) ==
  IF pending = <<>>
    THEN [db |-> db, threw |-> FALSE, error |-> NoError,
          applied |-> applied, trace |-> trace]
  ELSE
    LET migration == Head(pending)
        up == execMultiple(db, migration.up)
        afterUp == Append(trace, Event("up", migration, up.err))
    IN IF up.err # ""
         THEN [db |-> up.db, threw |-> TRUE, error |-> ApplyError(migration, up.err),
               applied |-> applied, trace |-> afterUp]
       ELSE
         LET ins == InsertLedger(up.db, migration)
             afterInsert == Append(afterUp, Event("insert", migration, ins.err))
         IN IF ins.err # ""
              THEN [db |-> ins.db, threw |-> TRUE,
                    error |-> ApplyError(migration, ins.err),
                    applied |-> applied, trace |-> afterInsert]
              ELSE ApplyPending(ins.db, Tail(pending),
                                Append(applied, migration), afterInsert)

\* runMigrations(db, migrations): the engine state it leaves, whether it
\* threw, the list it returns and the engine calls it made.
runMigrations(db, migrations) ==
  LET db1 == ensureMigrationsTable(db)
      status == getMigrationStatus(db1, migrations)
  IN ApplyPending(db1, status.pendingMigrations, <<>>, <<>>)

\* Mutant of Find: the first declared migration, whatever its version.
FindFirstDeclared(migrations, version) ==
  IF migrations = <<>> THEN <<>> ELSE <<Head(migrations)>>

\* migrations.find((m) => m.version === version): the first match, as a
\* sequence of at most one migration.
Find(migrations, version) ==
  LET hits == SelectSeq(migrations, LAMBDA m : m.version = version)
  IN IF hits = <<>> THEN <<>> ELSE <<Head(hits)>>

\* Mutant of NoDownScript: the check is missing.
NeverMissing(migration) == FALSE

\* !migration.down: the migration has no down script to run.
NoDownScript(migration) == migration.down = NoDown

\* rollbackMigration(db, migrations): rolledBack is the returned migration
\* as a one-element sequence, or <<>> for null.
rollbackMigration(db, migrations) ==
  LET db1 == ensureMigrationsTable(db)
      status == getMigrationStatus(db1, migrations)
      found == Find(migrations, status.currentVersion)
      none == [db |-> db1, threw |-> FALSE, error |-> NoError,
               rolledBack |-> <<>>, trace |-> <<>>]
  IN IF status.currentVersion = 0 THEN none
     ELSE IF found = <<>>
       THEN [none EXCEPT !.threw = TRUE,
               !.error = [message |-> "not found in migrations list",
                          version |-> status.currentVersion,
                          description |-> "", cause |-> ""]]
     ELSE LET migration == found[1] IN
       IF NoDownScript(migration)
         THEN [none EXCEPT !.threw = TRUE,
                 !.error = [message |-> "has no down migration",
                            version |-> migration.version,
                            description |-> migration.description, cause |-> ""]]
       ELSE
         LET down == execMultiple(db1, migration.down)
             afterDown == <<Event("down", migration, down.err)>>
         IN IF down.err # ""
              THEN [db |-> down.db, threw |-> TRUE,
                    error |-> [message |-> "Failed to rollback migration",
                               version |-> migration.version,
                               description |-> "", cause |-> down.err],
                    rolledBack |-> <<>>, trace |-> afterDown]
              ELSE [db |-> DeleteLedger(down.db, migration.version),
                    threw |-> FALSE, error |-> NoError,
                    rolledBack |-> <<migration>>,
                    trace |-> Append(afterDown, Event("delete", migration, ""))]

\* rollbackMigration(db, migrations, toVersion) as the README writes the
\* call: the function declares two parameters, the third argument is dropped.
rollbackMigrationTo(db, migrations, toVersion) == rollbackMigration(db, migrations)

\* ---------------------------------------------------------------- state
VARIABLES
  db,          \* the engine state of the open Database handle
  before,      \* the engine state that handle had when the call started
  op,          \* the call that has just returned or thrown, "none" between calls
  migrations,  \* the declared list that call was given
  outcome,     \* what that call did and what it handed to its caller
  sqlPromise,  \* connect.ts: the cached promise of initSqlJs()
  initCalls,   \* how often initSqlJs() was invoked in this process
  files,       \* the file system: the image stored at each database path
  dirs,        \* the file system: the directories that exist
  lastWriter,  \* the file system: whose writeFile completed last at each path
  scope,       \* the withConnection / createConnection call of each caller
  executor     \* query.ts: the last call of the statement executor

\* The state of the migration calls on one open handle.
migrationVars == <<db, before, op, migrations, outcome>>

\* The state of the connection lifecycle manager and the file system.
connectionVars == <<sqlPromise, initCalls, files, dirs, lastWriter, scope>>

\* The state of the statement executor's caller.
executorVars == <<executor>>

vars == <<migrationVars, connectionVars, executorVars>>

\* No call of the statement executor yet.
NoCall ==
  [fn |-> "none", sql |-> "", params |-> <<>>, script |-> <<>>, dbBefore |-> EmptyDb,
   threw |-> FALSE, error |-> NoError, columns |-> <<>>, rows |-> <<>>,
   changes |-> 0, calls |-> <<>>]

\* The database paths: the in-memory designation, one file, and the value of
\* config.dbPath in a config object without that property.  (The file
\* system has an entry for every path, also for files named ":memory:" and
\* "undefined".)
Memory == ":memory:"
FilePaths == {"./data/app.db"}
Omitted == "undefined"
Paths == {Memory, Omitted} \cup FilePaths

\* dirname(dbPath)
dirname(dbPath) == "./data"

\* No file at a path / no image in hand.
NoFile == [format |-> "none", tables |-> {}, hasLedger |-> FALSE, ledger |-> <<>>]

\* The callers that open connections.
ScopeIds == {"A", "B"}

\* A caller that has no call in progress.
IdleScope ==
  [kind |-> "none", path |-> Memory, pc |-> "idle", opened |-> FALSE,
   initial |-> EmptyDb, handle |-> EmptyDb, closes |-> 0,
   buffer |-> NoFile, exported |-> EmptyDb,
   filesBefore |-> [p \in Paths |-> NoFile], dirsBefore |-> {},
   readAfter |-> "none",
   trace |-> <<>>, threw |-> FALSE, error |-> NoError,
   fnResult |-> <<>>, result |-> <<>>]

\* Process start: initSqlJs() not yet called, no database file, no caller.
ConnectionInit ==
  /\ sqlPromise = "null"
  /\ initCalls = 0
  /\ files = [p \in Paths |-> NoFile]
  /\ dirs = {}
  /\ lastWriter = [p \in Paths |-> "none"]
  /\ scope = [s \in ScopeIds |-> IdleScope]

NoStatus == [currentVersion |-> 0, appliedMigrations |-> <<>>, pendingMigrations |-> <<>>]

NoOutcome ==
  [threw |-> FALSE, error |-> NoError, status |-> NoStatus,
   applied |-> <<>>,
   rolledBack |-> <<>>, trace |-> <<>>]

Init ==
  /\ db = EmptyDb
  /\ before = EmptyDb
  /\ op = "none"
  /\ migrations = <<>>
  /\ outcome = NoOutcome
  /\ ConnectionInit
  /\ executor = NoCall

\* A call of getMigrationStatus(db, L).
GetMigrationStatus(L) ==
  /\ op = "none"
  /\ before' = db
  /\ db' = ensureMigrationsTable(db)
  /\ op' = "getMigrationStatus"
  /\ migrations' = L
  /\ outcome' = [NoOutcome EXCEPT !.status = getMigrationStatus(db', L)]
  /\ UNCHANGED <<connectionVars, executorVars>>

\* A call of runMigrations(db, L).
RunMigrations(L) ==
  LET r == runMigrations(db, L) IN
  /\ op = "none"
  /\ before' = db
  /\ db' = r.db
  /\ op' = "runMigrations"
  /\ migrations' = L
  /\ outcome' = [NoOutcome EXCEPT !.threw = r.threw, !.error = r.error,
                   !.applied = r.applied, !.trace = r.trace]
  /\ UNCHANGED <<connectionVars, executorVars>>

\* A call of rollbackMigration(db, L).
RollbackMigration(L) ==
  LET r == rollbackMigration(db, L) IN
  /\ op = "none"
  /\ before' = db
  /\ db' = r.db
  /\ op' = "rollbackMigration"
  /\ migrations' = L
  /\ outcome' = [NoOutcome EXCEPT !.threw = r.threw, !.error = r.error,
                   !.rolledBack = r.rolledBack, !.trace = r.trace]
  /\ UNCHANGED <<connectionVars, executorVars>>

\* The caller has taken the result (or caught the error) of the call and
\* goes on with the same handle.
Continue ==
  /\ op # "none"
  /\ op' = "none"
  /\ migrations' = <<>>
  /\ outcome' = NoOutcome
  /\ before' = db
  /\ UNCHANGED db
  /\ UNCHANGED <<connectionVars, executorVars>>

Next ==
  \/ \E L \in DeclaredLists : GetMigrationStatus(L)
  \/ \E L \in DeclaredLists : RunMigrations(L)
  \/ \E L \in DeclaredLists : RollbackMigration(L)
  \/ Continue

Spec == Init /\ [][Next]_vars

\* ================================================================ claims
\* The elements of a sequence.
Range(s) == {s[i] : i \in 1 .. Len(s)}

\* The largest number of a non-empty set of numbers.
Max(S) == CHOOSE x \in S : \A y \in S : y <= x

\* No two migrations of the list have the same version.
UniqueVersions(L) == \A i, j \in 1 .. Len(L) : L[i].version = L[j].version => i = j

\* The versions in a list of migrations.
VersionsOf(L) == {L[i].version : i \in 1 .. Len(L)}

\* The sequence is ascending by version (equal versions may follow each other).
AscendingByVersion(L) == \A i, j \in 1 .. Len(L) : i < j => L[i].version <= L[j].version

\* The pending migrations the call in progress started from: the declared
\* migrations whose version the ledger did not hold, ascending by version.
PendingBefore == getMigrationStatus(ensureMigrationsTable(before), migrations).pendingMigrations

\* The status a getMigrationStatus call made now, with the same declared
\* list, reports.
StatusAfter == getMigrationStatus(ensureMigrationsTable(db), migrations)

\* The positions of PendingBefore at which an engine call of this run raised.
FailedAt ==
  {k \in 1 .. Len(PendingBefore) :
     \E i \in 1 .. Len(outcome.trace) :
       outcome.trace[i].m = PendingBefore[k] /\ outcome.trace[i].err # ""}

\* What fail-fast promises when applying the k-th pending migration raised.
FailFastAt(k) ==
  LET p == PendingBefore IN
  /\ outcome.threw
  /\ \A j \in (k + 1) .. Len(p) :
       \A i \in 1 .. Len(outcome.trace) : outcome.trace[i].m # p[j]
  /\ \A j \in 1 .. (k - 1) :
       /\ [version |-> p[j].version, description |-> p[j].description] \in Range(db.ledger)
       /\ p[j].version \in Range(StatusAfter.appliedMigrations)
  /\ StatusAfter.pendingMigrations = SubSeq(p, k, Len(p))

\* C1 as stated: for ANY declared list, when applying the k-th pending
\* migration raises, runMigrations raises, no later up script is executed, the
\* ledger entries of the earlier ones remain, and a following
\* getMigrationStatus reports p1..p(k-1) applied and pk..pn pending.
C1_FailFastAnyList ==
  op = "runMigrations" => \A k \in FailedAt : FailFastAt(k)

\* C1 (amended): the same, for declared lists whose versions are unique.
C1_FailFast ==
  (op = "runMigrations" /\ UniqueVersions(migrations)) => \A k \in FailedAt : FailFastAt(k)

\* C1 witness: a run of [v1 valid, v2 invalid, v3 valid] on a fresh database
\* has applied v1 and raised on v2.
C1_Witness ==
  /\ op = "runMigrations"
  /\ migrations = <<Good(1), BadUp, Good(3)>>
  /\ before.ledger = <<>>
  /\ FailedAt = {2}
  /\ outcome.applied = <<Good(1)>>

\* The tables a script creates.
CreatedBy(script) == {script[i].t : i \in {n \in 1 .. Len(script) : script[n].op = "CREATE TABLE"}}

\* C2: after any runMigrations call, returned or raised, the up script of a
\* migration the call executed has taken effect on the schema if and only if
\* the ledger holds an entry for its version.
C2_AtomicWithLedger ==
  op = "runMigrations" =>
    \A i \in 1 .. Len(outcome.trace) :
      outcome.trace[i].e = "up" =>
        ((CreatedBy(outcome.trace[i].m.up) \cap db.tables # {})
           <=> outcome.trace[i].m.version \in LedgerVersions(db))

\* C8: getMigrationStatus returns the ledger versions in strictly ascending
\* order, the largest of them (0 when there is none) as currentVersion, and as
\* pending exactly the declared migrations whose version is not in the
\* ledger, ascending by version.
C8_StatusComputation ==
  op = "getMigrationStatus" =>
    LET st == outcome.status
        a == st.appliedMigrations
        p == st.pendingMigrations
    IN /\ Range(a) = LedgerVersions(before)
       /\ \A i, j \in 1 .. Len(a) : i < j => a[i] < a[j]
       /\ st.currentVersion =
            (IF before.ledger = <<>> THEN 0 ELSE Max(LedgerVersions(before)))
       /\ Range(p) = {m \in Range(migrations) : m.version \notin LedgerVersions(before)}
       /\ Len(p) = Cardinality(Range(p))
       /\ AscendingByVersion(p)
       /\ (before.ledger = <<>> =>
             /\ st.currentVersion = 0
             /\ Range(p) = Range(migrations)
             /\ Len(p) = Len(migrations))
       /\ db.ledger = before.ledger

\* C8 witness: a status call with a list declared out of order, of which one
\* version is applied and two are pending.
C8_Witness ==
  /\ op = "getMigrationStatus"
  /\ migrations = <<Good(3), Good(2), Good(1)>>
  /\ outcome.status.appliedMigrations = <<2>>
  /\ outcome.status.pendingMigrations = <<Good(1), Good(3)>>

\* A rollbackMigration call has just returned a migration.
RolledBack == op = "rollbackMigration" /\ ~outcome.threw /\ outcome.rolledBack # <<>>

\* The ledger without its entry of the largest version.
WithoutLargest(ledger) ==
  SelectSeq(ledger, LAMBDA e : e.version # Max({ledger[i].version : i \in 1 .. Len(ledger)}))

\* C3: a successful rollback executes one down script, that of the migration
\* with the largest ledger version, removes that ledger entry and no other,
\* and leaves the next lower version as currentVersion.
C3_RollbackStackDiscipline ==
  RolledBack =>
    LET m == outcome.rolledBack[1] IN
    /\ before.ledger # <<>>
    /\ m.version = Max(LedgerVersions(before))
    /\ m \in Range(migrations)
    /\ outcome.trace = <<Event("down", m, ""), Event("delete", m, "")>>
    /\ db.ledger = WithoutLargest(before.ledger)
    /\ Len(db.ledger) = Len(before.ledger) - 1
    /\ StatusAfter.currentVersion =
         (IF db.ledger = <<>> THEN 0 ELSE Max(LedgerVersions(before) \ {m.version}))

\* C3 witness: v1, v2, v3 were applied in this order and a rollback has
\* reverted v3 alone, so that currentVersion is 2.
C3_Witness ==
  /\ RolledBack
  /\ [i \in 1 .. Len(before.ledger) |-> before.ledger[i].version] = <<1, 2, 3>>
  /\ outcome.rolledBack = <<Good(3)>>
  /\ [i \in 1 .. Len(db.ledger) |-> db.ledger[i].version] = <<1, 2>>
  /\ StatusAfter.currentVersion = 2

CreatedAscending(ledger) ==
  \A i, j \in 1 .. Len(ledger) : i < j => ledger[i].version < ledger[j].version

C5_RunIdempotent ==
  (op = "runMigrations" /\ ~outcome.threw) =>
    LET again == runMigrations(db, migrations) IN
    /\ ~again.threw
    /\ again.trace = <<>>
    /\ again.applied = <<>>
    /\ again.db = db

\* C5 witness: a run that applied two migrations has returned.
C5_Witness ==
  /\ op = "runMigrations"
  /\ ~outcome.threw
  /\ Len(outcome.applied) = 2
  /\ Len(migrations) = 3

\* The orderings of a list.
Orderings(L) == {P \in DeclaredLists : Len(P) = Len(L) /\ Range(P) = Range(L)}

\* C6: with unique versions, runMigrations on any permutation of the declared
\* list, from the same ledger state, executes the same up scripts in the same
\* (ascending) order, returns the same list and leaves the same ledger.
C6_OrderIndependence ==
  (op = "runMigrations" /\ UniqueVersions(migrations)) =>
    /\ AscendingByVersion(outcome.applied)
    /\ \A P \in Orderings(migrations) :
         LET r == runMigrations(before, P) IN
         /\ r.trace = outcome.trace
         /\ r.applied = outcome.applied
         /\ r.threw = outcome.threw
         /\ r.db = db

\* C6 witness: a run of a list declared in descending order has applied its
\* three migrations.
C6_Witness ==
  /\ op = "runMigrations"
  /\ migrations = <<Good(3), Good(2), Good(1)>>
  /\ outcome.applied = <<Good(1), Good(2), Good(3)>>

\* C7: for a non-empty list with unique positive versions and a ledger that
\* held only versions of the list, a runMigrations call that raised nothing
\* leaves no migration pending and currentVersion at the largest declared
\* version.
C7_RunCompletes ==
  (/\ op = "runMigrations"
   /\ ~outcome.threw
   /\ migrations # <<>>
   /\ UniqueVersions(migrations)
   /\ \A v \in VersionsOf(migrations) : v > 0
   /\ LedgerVersions(before) \subseteq VersionsOf(migrations))
  => /\ StatusAfter.pendingMigrations = <<>>
     /\ StatusAfter.currentVersion = Max(VersionsOf(migrations))
     /\ LedgerVersions(db) = VersionsOf(migrations)

\* C7 witness: a run on a ledger holding version 3 has applied versions 1 and
\* 2 of the list.
C7_Witness ==
  /\ op = "runMigrations"
  /\ ~outcome.threw
  /\ LedgerVersions(before) = {3}
  /\ outcome.applied = <<Good(1), Good(2)>>
  /\ Len(migrations) = 3

\* The version rollbackMigration takes as current: the largest in the ledger.
CurrentBefore == IF before.ledger = <<>> THEN 0 ELSE Max(LedgerVersions(before))

\* The first declared migration with the current version.
DeclaredCurrent == SelectSeq(migrations, LAMBDA m : m.version = CurrentBefore)

\* C9: when the declared migration of the current version has no down
\* script, rollbackMigration fails with the 'no down migration' error,
\* executes no script and leaves every ledger entry in place.
C9_NoDownScript ==
  (/\ op = "rollbackMigration"
   /\ DeclaredCurrent # <<>>
   /\ DeclaredCurrent[1].down = NoDown)
  => /\ outcome.threw
     /\ outcome.error.message = "has no down migration"
     /\ outcome.error.version = CurrentBefore
     /\ outcome.rolledBack = <<>>
     /\ outcome.trace = <<>>
     /\ db.ledger = before.ledger
     /\ db.tables = before.tables

\* C9 witness: a rollback was called with versions 1, 2 and 3 applied, the
\* declared version 3 having no down script.
C9_Witness ==
  /\ op = "rollbackMigration"
  /\ LedgerVersions(before) = {1, 2, 3}
  /\ DeclaredCurrent = <<Irreversible>>
  /\ outcome.threw

\* C10: when the largest ledger version is the version of no declared
\* migration, rollbackMigration fails with the 'not found in migrations list'
\* error (not the 'no down migration' one), executes no down script and leaves
\* the ledger untouched.
C10_UnknownCurrentVersion ==
  (/\ op = "rollbackMigration"
   /\ before.ledger # <<>>
   /\ CurrentBefore \notin VersionsOf(migrations))
  => /\ outcome.threw
     /\ outcome.error.message = "not found in migrations list"
     /\ outcome.error.message # "has no down migration"
     /\ outcome.error.version = CurrentBefore
     /\ outcome.rolledBack = <<>>
     /\ outcome.trace = <<>>
     /\ db.ledger = before.ledger
     /\ db.tables = before.tables

\* C10 witness: versions 1 and 3 are applied and a rollback was called with a
\* list that declares version 1, with a down script, but not version 3.
C10_Witness ==
  /\ op = "rollbackMigration"
  /\ LedgerVersions(before) = {1, 3}
  /\ migrations = <<Good(1)>>
  /\ outcome.threw

\* C11: with positive versions declared and applied, rollbackMigration
\* returns null exactly when the ledger holds no entry, and then it executes
\* no script and deletes nothing.
C11_NullIffLedgerEmpty ==
  (/\ op = "rollbackMigration"
   /\ \A v \in VersionsOf(migrations) \cup LedgerVersions(before) : v > 0)
  => /\ (~outcome.threw /\ outcome.rolledBack = <<>>) <=> (before.ledger = <<>>)
     /\ (before.ledger = <<>> =>
           /\ outcome.trace = <<>>
           /\ db.ledger = before.ledger
           /\ db.tables = before.tables)

\* C11 witness: a rollback with a declared list that has down scripts was
\* called on an empty ledger and returned null.
C11_Witness ==
  /\ op = "rollbackMigration"
  /\ before.ledger = <<>>
  /\ before.hasLedger
  /\ migrations = <<Good(1), Good(2)>>
  /\ ~outcome.threw
  /\ outcome.rolledBack = <<>>

\* ===================================================== connect.ts
\* An error of the file system or of the engine set-up, in the shape of the
\* errors the migration functions throw.
IoError(code) == [message |-> code, version |-> 0, description |-> "", cause |-> ""]

\* The error a callback throws by itself.
CallbackError == IoError("callback failed")

\* The error a rejected initSqlJs() promise carries.
InitError == IoError("initSqlJs failed")

\* The migration lists a callback (or the caller of a manual connection)
\* runs on its handle; the last one throws after a partial schema change.
FnLists == {<<Good(1)>>, <<Good(1), Good(2)>>, <<BadUp>>}

\* One call of the engine or of the file system made for a scope.
Io(e, code) == [e |-> e, code |-> code]

\* Mutant of IsMemory: the in-memory designation is not recognised.
NeverMemory(dbPath) == FALSE

\* dbPath === ":memory:"
IsMemory(dbPath) == dbPath = Memory

\* Mutant of IsAbsent: every read error counts as an absent file.
AnyCodeAbsent(code) == TRUE

\* (error as NodeJS.ErrnoException).code === "ENOENT"
IsAbsent(code) == code = "ENOENT"

\* Mutant of Export: the rows of _migrations are left out of the image.
ExportWithoutLedger(handle) ==
  [format |-> "SQLite format 3", tables |-> handle.tables,
   hasLedger |-> FALSE, ledger |-> <<>>]

\* Buffer.from(db.export()): the image of the current database.
Export(handle) ==
  [format |-> "SQLite format 3", tables |-> handle.tables,
   hasLedger |-> handle.hasLedger, ledger |-> handle.ledger]

\* new SQL.Database(buffer): the database an image holds.
Open(image) ==
  [tables |-> image.tables, hasLedger |-> image.hasLedger, ledger |-> image.ledger]

\* Mutant of getSql: no cache, every call starts a new initSqlJs().
getSqlUncached(promise) == "pending"

\* Mutant of getSql: a rejected promise is dropped and the setup is tried
\* again.
getSqlRetries(promise) ==
  IF promise \in {"null", "rejected"} THEN "pending" ELSE promise

\* getSql(): the promise it caches and returns.
getSql(promise) == IF promise = "null" THEN "pending" ELSE promise

\* The outcomes readFile(dbPath) can have.
ReadCodes(file) == IF file = NoFile THEN {"ENOENT", "EACCES"} ELSE {"", "EACCES"}

\* The outcomes of readFile(dbPath) with the files stored: a path that is not
\* a string is refused before the file system is asked.
ReadOutcomes(dbPath, stored) ==
  IF dbPath = Omitted THEN {"ERR_INVALID_ARG_TYPE"} ELSE ReadCodes(stored[dbPath])

\* The outcomes mkdir(dirname(dbPath), {recursive: true}) can have.
MkdirCodes == {"", "EACCES"}

\* The outcomes writeFile(dbPath, buffer) can have.
WriteCodes(existing, dir) == IF dir \in existing THEN {"", "EACCES"} ELSE {"ENOENT"}

\* mkdir(dirname(dbPath), {recursive: true}) that succeeded.
mkdir(existing, dir) == existing \cup {dir}

\* Mutant of writeFile: an existing file is not replaced (exclusive create).
writeFileOnce(stored, dbPath, buffer) ==
  IF stored[dbPath] = NoFile THEN [stored EXCEPT ![dbPath] = buffer] ELSE stored

\* Mutant of writeFile: nothing is stored.
writeFileNowhere(stored, dbPath, buffer) == stored

\* writeFile(dbPath, buffer) that succeeded.
writeFile(stored, dbPath, buffer) == [stored EXCEPT ![dbPath] = buffer]

\* Mutant of ImageToWrite: the image that was read when the scope opened.
StaleImage(rec) == rec.filesBefore[rec.path]

\* Mutant of ImageToWrite: the database is exported after the mkdir, when the
\* write starts.
ImageAtWriteTime(rec) == Export(rec.handle)

\* The data saveDatabase hands to writeFile: the buffer exported when
\* saveDatabase was called.
ImageToWrite(rec) == rec.buffer

\* Mutant of Finally: the handle is not closed.
NoFinally(rec) == rec

\* withConnection's `finally`: db.close().
Finally(rec) ==
  [rec EXCEPT !.closes = @ + 1, !.trace = Append(@, Io("close", ""))]

\* The call ends by throwing err.
Throw(rec, err) == [rec EXCEPT !.pc = "done", !.threw = TRUE, !.error = err]

\* Mutant of AfterCallback: the two branches are swapped.
SaveOnRaise(raised) == IF raised THEN "save" ELSE "finally"

\* Mutant of AfterCallback: the save is in the finally block.
AlwaysSave(raised) == "save"

\* withConnection's try block after `await fn(db)`: "save" when the callback
\* returned, "finally" when it raised.
AfterCallback(raised) == IF raised THEN "finally" ELSE "save"

\* The handle is in hand: withConnection invokes the callback,
\* createConnection returns {db, save}.
Loaded(rec, handle) ==
  LET r == [rec EXCEPT !.opened = TRUE, !.initial = handle, !.handle = handle,
                       !.trace = Append(@, Io("open", ""))]
  IN IF rec.kind = "withConnection"
       THEN [r EXCEPT !.pc = "fn", !.trace = Append(@, Io("fn", ""))]
       ELSE [r EXCEPT !.pc = "open"]

\* Mutant of SaveStart: every path is treated like the in-memory one.
SaveStartSkips(rec) == [rec EXCEPT !.pc = "saved"]

\* saveDatabase(db, dbPath) up to its first await: nothing for the in-memory
\* designation, else the export and the mkdir request.
SaveStart(rec) ==
  IF IsMemory(rec.path)
    THEN [rec EXCEPT !.pc = "saved"]
    ELSE [rec EXCEPT !.pc = "mkdir", !.buffer = Export(rec.handle),
                     !.exported = rec.handle,
                     !.trace = Append(@, Io("export", ""))]

\* saveDatabase has returned: withConnection closes and returns the
\* callback's result, a manual save() resolves.
SaveReturned(rec) ==
  IF rec.kind = "withConnection"
    THEN [Finally(rec) EXCEPT !.pc = "done", !.result = rec.fnResult]
    ELSE [rec EXCEPT !.pc = "open", !.threw = FALSE, !.error = NoError]

\* saveDatabase has thrown: withConnection closes and rethrows, a manual
\* save() rejects and the handle stays with the caller.
SaveFailed(rec, code) ==
  IF rec.kind = "withConnection"
    THEN Throw(Finally(rec), IoError(code))
    ELSE [rec EXCEPT !.pc = "open", !.threw = TRUE, !.error = IoError(code)]

\* The callback has settled.
CallbackSettled(rec, raised, err) ==
  LET settled == [rec EXCEPT !.trace =
                    Append(@, Io(IF raised THEN "fn raised" ELSE "fn returned", ""))]
  IN IF AfterCallback(raised) = "save"
       THEN LET r == SaveStart(settled)
            IN IF r.pc = "saved" THEN SaveReturned(r) ELSE r
       ELSE Throw(Finally(settled), err)

\* A caller starts withConnection or createConnection: loadDatabase calls
\* getSql() and waits for the engine.
Call(s, kind, dbPath) ==
  /\ scope[s].pc = "idle"
  /\ sqlPromise' = getSql(sqlPromise)
  /\ initCalls' = IF sqlPromise = "null" THEN initCalls + 1 ELSE initCalls
  /\ scope' = [scope EXCEPT ![s] =
       [IdleScope EXCEPT !.kind = kind, !.path = dbPath, !.pc = "getSql",
          !.filesBefore = files, !.dirsBefore = dirs]]
  /\ UNCHANGED <<files, dirs, lastWriter, migrationVars, executorVars>>

WithConnection(s, dbPath) == Call(s, "withConnection", dbPath)

CreateConnection(s, dbPath) == Call(s, "createConnection", dbPath)

\* The promise of initSqlJs() settles.
InitSqlJsSettles ==
  /\ sqlPromise = "pending"
  /\ sqlPromise' \in {"resolved", "rejected"}
  /\ UNCHANGED <<initCalls, files, dirs, lastWriter, scope, migrationVars, executorVars>>

\* loadDatabase after `await getSql()`.
LoadDatabase(s) ==
  LET rec == scope[s] IN
  /\ rec.pc = "getSql"
  /\ sqlPromise \in {"resolved", "rejected"}
  /\ scope' = [scope EXCEPT ![s] =
       IF sqlPromise = "rejected" THEN Throw(rec, InitError)
       ELSE IF IsMemory(rec.path) THEN Loaded(rec, EmptyDb)
       ELSE [rec EXCEPT !.pc = "readFile"]]
  /\ UNCHANGED <<sqlPromise, initCalls, files, dirs, lastWriter, migrationVars, executorVars>>

\* readFile(dbPath) settles.
ReadFile(s) ==
  LET rec == scope[s] IN
  /\ rec.pc = "readFile"
  /\ \E code \in ReadOutcomes(rec.path, files) :
       LET r == [rec EXCEPT !.trace = Append(@, Io("readFile", code)),
                            !.readAfter = lastWriter[rec.path]] IN
       scope' = [scope EXCEPT ![s] =
         IF code = "" THEN Loaded(r, Open(files[rec.path]))
         ELSE IF IsAbsent(code) THEN Loaded(r, EmptyDb)
         ELSE Throw(r, IoError(code))]
  /\ UNCHANGED <<sqlPromise, initCalls, files, dirs, lastWriter, migrationVars, executorVars>>

\* The callback runs migrations on the handle; when they fail it raises
\* their error.
FnRuns(s, L) ==
  LET rec == scope[s]
      r == runMigrations(rec.handle, L)
      ran == [rec EXCEPT !.handle = r.db,
                !.fnResult = [i \in 1 .. Len(r.applied) |-> r.applied[i].version]]
  IN
  /\ rec.kind = "withConnection"
  /\ rec.pc = "fn"
  /\ scope' = [scope EXCEPT ![s] =
       IF r.threw THEN CallbackSettled(ran, TRUE, r.error) ELSE ran]
  /\ UNCHANGED <<sqlPromise, initCalls, files, dirs, lastWriter, migrationVars, executorVars>>

\* The callback returns (its promise resolves).
FnReturns(s) ==
  /\ scope[s].kind = "withConnection"
  /\ scope[s].pc = "fn"
  /\ scope' = [scope EXCEPT ![s] = CallbackSettled(@, FALSE, NoError)]
  /\ UNCHANGED <<sqlPromise, initCalls, files, dirs, lastWriter, migrationVars, executorVars>>

\* The callback throws (its promise rejects).
FnThrows(s) ==
  /\ scope[s].kind = "withConnection"
  /\ scope[s].pc = "fn"
  /\ scope' = [scope EXCEPT ![s] = CallbackSettled(@, TRUE, CallbackError)]
  /\ UNCHANGED <<sqlPromise, initCalls, files, dirs, lastWriter, migrationVars, executorVars>>

\* mkdir settles.
Mkdir(s) ==
  LET rec == scope[s] IN
  /\ rec.pc = "mkdir"
  /\ \E code \in MkdirCodes :
       LET r == [rec EXCEPT !.trace = Append(@, Io("mkdir", code))] IN
       /\ dirs' = IF code = "" THEN mkdir(dirs, dirname(rec.path)) ELSE dirs
       /\ scope' = [scope EXCEPT ![s] =
            IF code = "" THEN [r EXCEPT !.pc = "writeFile"] ELSE SaveFailed(r, code)]
  /\ UNCHANGED <<sqlPromise, initCalls, files, lastWriter, migrationVars, executorVars>>

\* writeFile settles.
WriteFile(s) ==
  LET rec == scope[s] IN
  /\ rec.pc = "writeFile"
  /\ \E code \in WriteCodes(dirs, dirname(rec.path)) :
       LET r == [rec EXCEPT !.trace = Append(@, Io("writeFile", code))] IN
       /\ files' = IF code = "" THEN writeFile(files, rec.path, ImageToWrite(rec))
                                ELSE files
       /\ lastWriter' = IF code = "" THEN [lastWriter EXCEPT ![rec.path] = s]
                                     ELSE lastWriter
       /\ scope' = [scope EXCEPT ![s] =
            IF code = "" THEN SaveReturned(r) ELSE SaveFailed(r, code)]
  /\ UNCHANGED <<sqlPromise, initCalls, dirs, migrationVars, executorVars>>

\* The owner of a manual connection runs migrations on the live handle,
\* also while a save() is in flight.
ManualRuns(s, L) ==
  LET rec == scope[s] IN
  /\ rec.kind = "createConnection"
  /\ rec.pc \in {"open", "mkdir", "writeFile"}
  /\ scope' = [scope EXCEPT ![s].handle = runMigrations(rec.handle, L).db]
  /\ UNCHANGED <<sqlPromise, initCalls, files, dirs, lastWriter, migrationVars, executorVars>>

\* The owner of a manual connection calls save().
Save(s) ==
  LET rec == scope[s] IN
  /\ rec.kind = "createConnection"
  /\ rec.pc = "open"
  /\ scope' = [scope EXCEPT ![s] =
       LET r == SaveStart([rec EXCEPT !.trace = <<>>, !.threw = FALSE,
                                      !.error = NoError])
       IN IF r.pc = "saved" THEN SaveReturned(r) ELSE r]
  /\ UNCHANGED <<sqlPromise, initCalls, files, dirs, lastWriter, migrationVars, executorVars>>

\* The owner of a manual connection is done with it (db.close() is its own
\* business).
Abandon(s) ==
  /\ scope[s].kind = "createConnection"
  /\ scope[s].pc = "open"
  /\ scope' = [scope EXCEPT ![s].pc = "done"]
  /\ UNCHANGED <<sqlPromise, initCalls, files, dirs, lastWriter, migrationVars, executorVars>>

\* The caller has taken the result or the error of its call and may start
\* another one.
Settled(s) ==
  /\ scope[s].pc = "done"
  /\ scope' = [scope EXCEPT ![s] = IdleScope]
  /\ UNCHANGED <<sqlPromise, initCalls, files, dirs, lastWriter, migrationVars, executorVars>>

\* The sequential use the package assumes: one caller, one live handle at a
\* time.
Sequential == {"A"}

ConnNext ==
  \E s \in Sequential :
    \/ \E dbPath \in Paths : WithConnection(s, dbPath)
    \/ \E dbPath \in Paths : CreateConnection(s, dbPath)
    \/ InitSqlJsSettles
    \/ LoadDatabase(s)
    \/ ReadFile(s)
    \/ \E L \in FnLists : FnRuns(s, L)
    \/ FnReturns(s)
    \/ FnThrows(s)
    \/ Mkdir(s)
    \/ WriteFile(s)
    \/ \E L \in FnLists : ManualRuns(s, L)
    \/ Save(s)
    \/ Abandon(s)
    \/ Settled(s)

ConnSpec == Init /\ [][ConnNext]_vars

\* Two callers, each making one call on the database file (withConnection,
\* or createConnection up to the return of the handle), their awaits
\* interleaved in any order.
Concurrent == ScopeIds

OverlapNext ==
  \E s \in Concurrent :
    \/ \E dbPath \in FilePaths : WithConnection(s, dbPath)
    \/ \E dbPath \in FilePaths : CreateConnection(s, dbPath)
    \/ InitSqlJsSettles
    \/ LoadDatabase(s)
    \/ ReadFile(s)
    \/ \E L \in FnLists : FnRuns(s, L)
    \/ FnReturns(s)
    \/ FnThrows(s)
    \/ Mkdir(s)
    \/ WriteFile(s)

OverlapSpec == Init /\ [][OverlapNext]_vars

\* ------------------------------------------------- connection claims
\* The scope made the engine or file-system call e.
Did(rec, e) == \E i \in 1 .. Len(rec.trace) : rec.trace[i].e = e

\* The scope made the call e and it ended with code.
DidWith(rec, e, code) ==
  \E i \in 1 .. Len(rec.trace) : rec.trace[i].e = e /\ rec.trace[i].code = code

\* The persistence of the scope failed with code.
PersistFailed(rec, code) ==
  code # "" /\ (DidWith(rec, "mkdir", code) \/ DidWith(rec, "writeFile", code))

\* A withConnection call that has ended after its open succeeded.
ScopeEnded(rec) == rec.kind = "withConnection" /\ rec.pc = "done" /\ rec.opened

\* C12: in every withConnection call whose open succeeded the handle is
\* closed exactly once, whether the callback returned and the save succeeded,
\* the callback raised, or the save failed; a failed save's error reaches the
\* caller and the handle is closed all the same.
C12_ClosedExactlyOnce ==
  \A s \in ScopeIds :
    LET rec == scope[s] IN
    rec.kind = "withConnection" =>
      /\ rec.closes = (IF rec.pc = "done" /\ rec.opened THEN 1 ELSE 0)
      /\ \A code \in {"EACCES", "ENOENT"} :
           (rec.pc = "done" /\ PersistFailed(rec, code)) =>
             rec.threw /\ rec.error = IoError(code) /\ rec.closes = 1

\* C12 witness: the write of a scope failed, the error was thrown and the
\* handle is closed.
C12_Witness ==
  /\ ScopeEnded(scope["A"])
  /\ DidWith(scope["A"], "writeFile", "EACCES")
  /\ scope["A"].threw
  /\ scope["A"].closes = 1

\* C13: when the callback raises, nothing is serialised, no file or directory
\* is written, the file at dbPath is as it was before the scope, the handle
\* is closed and the error thrown is the callback's.
C13_RaiseSkipsPersistence ==
  \A s \in ScopeIds :
    LET rec == scope[s] IN
    (rec.kind = "withConnection" /\ Did(rec, "fn raised")) =>
      /\ rec.pc = "done"
      /\ ~Did(rec, "export") /\ ~Did(rec, "mkdir") /\ ~Did(rec, "writeFile")
      /\ rec.buffer = NoFile
      /\ files = rec.filesBefore
      /\ dirs = rec.dirsBefore
      /\ rec.closes = 1
      /\ rec.threw
      /\ \/ rec.error = CallbackError
         \/ rec.error.message = "Failed to apply migration"

\* C13 witness: the migrations run by a callback on a file path failed after
\* they changed the schema.
C13_Witness ==
  /\ scope["A"].kind = "withConnection"
  /\ scope["A"].path \in FilePaths
  /\ Did(scope["A"], "fn raised")
  /\ scope["A"].handle.tables # scope["A"].initial.tables
  /\ scope["A"].error.message = "Failed to apply migration"

\* No call of the file system made for the scope failed.
NoIoFailure(rec) ==
  \A i \in 1 .. Len(rec.trace) :
    \/ rec.trace[i].code = ""
    \/ (rec.trace[i].e = "readFile" /\ IsAbsent(rec.trace[i].code))

\* The scope has written the image of its database to its path.
Persisted(rec) == DidWith(rec, "writeFile", "") /\ files[rec.path] = Export(rec.handle)

\* C14 as stated: every withConnection scope on a file path whose open
\* succeeded persists the image and releases the handle, whether the callback
\* returned or raised.
C14_PersistsAndReleasesAlways ==
  \A s \in ScopeIds :
    LET rec == scope[s] IN
    (ScopeEnded(rec) /\ ~IsMemory(rec.path) /\ NoIoFailure(rec)) =>
      rec.closes = 1 /\ Persisted(rec)

\* C14 (amended): every such scope releases the handle; it persists the image
\* when the callback returned (and no file-system call failed) and leaves the
\* file alone when the callback raised.
C14_ReleasesAlwaysPersistsOnReturn ==
  \A s \in ScopeIds :
    LET rec == scope[s] IN
    (ScopeEnded(rec) /\ ~IsMemory(rec.path)) =>
      /\ rec.closes = 1
      /\ (Did(rec, "fn returned") /\ NoIoFailure(rec)) => Persisted(rec)
      /\ Did(rec, "fn raised") => (~Did(rec, "writeFile") /\ files = rec.filesBefore)

\* C14 witness: a scope on a file path whose callback returned after changing
\* the schema has persisted and released.
C14_Witness ==
  /\ ScopeEnded(scope["A"])
  /\ scope["A"].path \in FilePaths
  /\ Did(scope["A"], "fn returned")
  /\ scope["A"].handle.tables = {1, 2}
  /\ Persisted(scope["A"])
  /\ scope["A"].closes = 1

\* The calls of a trace, in order.
Calls(rec) == [i \in 1 .. Len(rec.trace) |-> rec.trace[i].e]

\* C15: a withConnection call that returns has loaded the image, run the
\* callback to completion, serialised and written the image and closed the
\* handle, in this order; the image written holds every change the callback
\* made and the value returned is the callback's result.
C15_ScopedOrdering ==
  \A s \in ScopeIds :
    LET rec == scope[s] IN
    /\ (rec.kind = "withConnection" /\ rec.closes > 0) => rec.pc = "done"
    /\ (rec.kind = "withConnection" /\ rec.pc = "done" /\ ~rec.threw) =>
         /\ Calls(rec) =
              (IF IsMemory(rec.path)
                 THEN <<"open", "fn", "fn returned", "close">>
                 ELSE <<"readFile", "open", "fn", "fn returned", "export",
                        "mkdir", "writeFile", "close">>)
         /\ ~IsMemory(rec.path) =>
              /\ files[rec.path] = Export(rec.handle)
              /\ rec.exported = rec.handle
              /\ NoIoFailure(rec)
         /\ rec.result = rec.fnResult

\* C15 witness: a scope on an existing file has returned the versions its
\* callback applied.
C15_Witness ==
  /\ scope["A"].kind = "withConnection"
  /\ scope["A"].pc = "done"
  /\ ~scope["A"].threw
  /\ scope["A"].filesBefore[scope["A"].path] # NoFile
  /\ scope["A"].result = <<2>>
  /\ LedgerVersions(Open(files[scope["A"].path])) = {1, 2}

\* C16: for ":memory:" neither withConnection nor the save of
\* createConnection reads, creates or writes a file or directory or
\* serialises the image; the database starts empty.
C16_MemoryTouchesNoFile ==
  \A s \in ScopeIds :
    LET rec == scope[s] IN
    (rec.kind # "none" /\ rec.path = Memory) =>
      /\ ~Did(rec, "readFile") /\ ~Did(rec, "export")
      /\ ~Did(rec, "mkdir") /\ ~Did(rec, "writeFile")
      /\ rec.buffer = NoFile
      /\ files = rec.filesBefore
      /\ dirs = rec.dirsBefore
      /\ rec.opened => rec.initial = EmptyDb

\* C16 witness: the save of a manual in-memory connection has returned with
\* a changed database, while a database file of an earlier scope exists.
C16_Witness ==
  /\ scope["A"].kind = "createConnection"
  /\ scope["A"].path = Memory
  /\ scope["A"].pc = "open"
  /\ scope["A"].trace = <<>>
  /\ scope["A"].handle.tables = {1, 2}
  /\ \E p \in FilePaths : files[p] # NoFile

\* C17: on a file path where no file exists, withConnection starts the
\* callback on an empty database and, once it has returned, the parent
\* directory exists and the file holds the image with the callback's changes.
C17_FreshPath ==
  \A s \in ScopeIds :
    LET rec == scope[s] IN
    (/\ rec.kind = "withConnection"
     /\ rec.path \in FilePaths
     /\ rec.filesBefore[rec.path] = NoFile
     /\ rec.pc = "done"
     /\ ~rec.threw)
    => /\ rec.initial = EmptyDb
       /\ dirname(rec.path) \in dirs
       /\ files[rec.path] # NoFile
       /\ Open(files[rec.path]) = rec.handle

\* C17 witness: a scope on a fresh path, with no directory, has returned
\* after its callback applied two migrations.
C17_Witness ==
  /\ scope["A"].kind = "withConnection"
  /\ scope["A"].path \in FilePaths
  /\ scope["A"].filesBefore[scope["A"].path] = NoFile
  /\ scope["A"].dirsBefore = {}
  /\ scope["A"].pc = "done"
  /\ ~scope["A"].threw
  /\ LedgerVersions(scope["A"].handle) = {1, 2}

\* C18: a read that fails because the file is absent opens an empty database
\* without an error; a read that fails for another reason throws that error,
\* the callback is never invoked and nothing is written.
C18_MissingFile ==
  \A s \in ScopeIds :
    LET rec == scope[s] IN
    /\ DidWith(rec, "readFile", "ENOENT") =>
         /\ rec.opened
         /\ rec.initial = EmptyDb
         /\ rec.error # IoError("ENOENT")
         /\ Calls(rec)[2] = "open"
    /\ DidWith(rec, "readFile", "EACCES") =>
         /\ rec.pc = "done"
         /\ rec.threw
         /\ rec.error = IoError("EACCES")
         /\ ~rec.opened
         /\ Calls(rec) = <<"readFile">>
         /\ files = rec.filesBefore
         /\ dirs = rec.dirsBefore

\* C18 witness: reading an existing file failed with EACCES and
\* withConnection threw.
C18_Witness ==
  /\ scope["A"].kind = "withConnection"
  /\ scope["A"].filesBefore[scope["A"].path] # NoFile
  /\ DidWith(scope["A"], "readFile", "EACCES")
  /\ scope["A"].threw

\* C19: after a withConnection scope on a file path has returned, the next
\* scope on that path starts from a database with every change of the first,
\* the ledger included, and runMigrations in it applies nothing the first
\* scope applied.
C19_RoundTrip ==
  \A s \in ScopeIds :
    LET rec == scope[s] IN
    /\ (rec.kind = "withConnection" /\ rec.path \in FilePaths
          /\ rec.pc = "done" /\ ~rec.threw) =>
         /\ files[rec.path] # NoFile
         /\ Open(files[rec.path]) = rec.handle
         /\ \A L \in FnLists :
              LET next == runMigrations(Open(files[rec.path]), L) IN
              \A i \in 1 .. Len(next.applied) :
                next.applied[i].version \notin LedgerVersions(rec.handle)
    /\ (rec.path \in FilePaths /\ DidWith(rec, "readFile", "")) =>
         /\ rec.filesBefore[rec.path] # NoFile
         /\ rec.initial = Open(rec.filesBefore[rec.path])

\* C19 witness: a second scope on a path has applied version 2 alone, on top
\* of the version 1 it found in the file.
C19_Witness ==
  /\ scope["A"].kind = "withConnection"
  /\ scope["A"].path \in FilePaths
  /\ LedgerVersions(Open(scope["A"].filesBefore[scope["A"].path])) = {1}
  /\ scope["A"].initial.ledger # <<>>
  /\ scope["A"].pc = "done"
  /\ ~scope["A"].threw
  /\ scope["A"].fnResult = <<2>>

\* C20: createConnection returns the live handle and never closes it or
\* writes the file by itself; a save writes the database as it was when save
\* was called, so later changes are not in the file.
C20_ManualMode ==
  \A s \in ScopeIds :
    LET rec == scope[s] IN
    rec.kind = "createConnection" =>
      /\ rec.closes = 0
      /\ ~Did(rec, "close")
      /\ Did(rec, "open") =>
           (files = rec.filesBefore /\ dirs = rec.dirsBefore /\ rec.buffer = NoFile)
      /\ (rec.pc = "open" /\ DidWith(rec, "writeFile", "")) =>
           /\ files[rec.path] = Export(rec.exported)
           /\ ~rec.threw

\* C20 witness: a save has written the file and the database has changed
\* since save was called.
C20_Witness ==
  /\ scope["A"].kind = "createConnection"
  /\ scope["A"].pc = "open"
  /\ DidWith(scope["A"], "writeFile", "")
  /\ scope["A"].exported.tables = {1}
  /\ scope["A"].handle.tables = {1, 2}
  /\ Open(files[scope["A"].path]).tables = {1}

\* The withConnection calls of s and t on one file overlap: each has opened
\* the file and neither read it after the other's write.
Overlapped(s, t) ==
  /\ s # t
  /\ scope[s].kind = "withConnection" /\ scope[t].kind = "withConnection"
  /\ scope[s].path \in FilePaths /\ scope[t].path = scope[s].path
  /\ scope[s].opened /\ scope[t].opened
  /\ scope[s].readAfter # t /\ scope[t].readAfter # s

\* The scope threw for a reason of its own: its callback raised or one of
\* its own file-system calls failed.
OwnFailure(rec) ==
  \/ Did(rec, "fn raised")
  \/ \E code \in {"EACCES", "ENOENT"} : PersistFailed(rec, code)

\* C21: two withConnection calls that open one file before either has
\* persisted start from the same image, each on its own handle; neither
\* throws because of the other; once both have ended after writing, the
\* file is the image of the one that wrote last and the changes of the other
\* are not in it.
C21_LastWriterWins ==
  \A s, t \in ScopeIds :
    Overlapped(s, t) =>
      LET a == scope[s]
          b == scope[t]
      IN /\ a.initial = b.initial
         /\ a.initial = (IF a.filesBefore[a.path] = NoFile
                           THEN EmptyDb ELSE Open(a.filesBefore[a.path]))
         /\ a.threw => OwnFailure(a)
         /\ (/\ a.pc = "done" /\ b.pc = "done"
             /\ DidWith(a, "writeFile", "") /\ DidWith(b, "writeFile", "")
             /\ lastWriter[a.path] = t)
            => /\ ~a.threw /\ ~b.threw
               /\ files[a.path] = Export(b.handle)
               /\ a.handle # b.handle => Open(files[a.path]) # a.handle

\* C21 witness: A and B opened the fresh path together, A applied versions
\* 1 and 2 and wrote first, B applied version 1 and wrote last: the file has
\* no version 2.
C21_Witness ==
  /\ Overlapped("A", "B")
  /\ scope["A"].pc = "done" /\ scope["B"].pc = "done"
  /\ ~scope["A"].threw /\ ~scope["B"].threw
  /\ LedgerVersions(scope["A"].handle) = {1, 2}
  /\ LedgerVersions(scope["B"].handle) = {1}
  /\ lastWriter[scope["A"].path] = "B"
  /\ LedgerVersions(Open(files[scope["A"].path])) = {1}

\* ------------------------------------------------- migration claims (2)
\* The migrations whose ledger row this call inserted, in the order of the
\* inserts.
InsertedNow ==
  LET ok == SelectSeq(outcome.trace, LAMBDA e : e.e = "insert" /\ e.err = "")
  IN [i \in 1 .. Len(ok) |-> ok[i].m]

\* C22: a runMigrations call that returns hands back exactly the migrations
\* it applied in this call, ascending by version: the list is the pending
\* list computed at the start of the call and holds no migration whose
\* version the ledger had before the call.
C22_ReturnsAppliedNow ==
  (op = "runMigrations" /\ ~outcome.threw) =>
    /\ outcome.applied = PendingBefore
    /\ outcome.applied = InsertedNow
    /\ AscendingByVersion(outcome.applied)
    /\ VersionsOf(outcome.applied) \cap LedgerVersions(before) = {}
    /\ LedgerVersions(db) = LedgerVersions(before) \cup VersionsOf(outcome.applied)

\* C22 witness: version 2 was applied by an earlier call; this call, given
\* the versions 3, 2, 1 in this order, returned 1 and 3.
C22_Witness ==
  /\ op = "runMigrations"
  /\ ~outcome.threw
  /\ LedgerVersions(before) = {2}
  /\ migrations = <<Good(3), Good(2), Good(1)>>
  /\ outcome.applied = <<Good(1), Good(3)>>

\* The migrations whose down script reverses their up script.
Reversible == {Good(v) : v \in Versions}

\* runMigrations([m]) has just been called on a database where m was
\* pending.
RanAlone(m) ==
  /\ op = "runMigrations"
  /\ migrations = <<m>>
  /\ m.version \notin LedgerVersions(before)

\* That call returned [m] with m's table present, and rollbackMigration([m])
\* called next returns m and leaves the tables and the ledger rows as they
\* were before the run, with m pending again.
RoundTrip(m) ==
  LET rb == rollbackMigration(db, <<m>>)
      again == getMigrationStatus(rb.db, <<m>>)
  IN /\ ~outcome.threw
     /\ outcome.applied = <<m>>
     /\ tableExists(db, m.up[1].t)
     /\ m.version \in LedgerVersions(db)
     /\ ~rb.threw
     /\ rb.rolledBack = <<m>>
     /\ ~tableExists(rb.db, m.up[1].t)
     /\ rb.db.tables = before.tables
     /\ rb.db.ledger = before.ledger
     /\ again.pendingMigrations = <<m>>

LastCall == outcome.trace[Len(outcome.trace)]

\* C24: the error of a failed runMigrations is a new error that names the
\* version and the description of the migration whose engine call failed
\* and carries the message of that failure, for a failed up script as for a
\* failed ledger insert.
C24_WrappedError ==
  (op = "runMigrations" /\ outcome.threw) =>
    /\ outcome.trace # <<>>
    /\ LastCall.e \in {"up", "insert"}
    /\ LastCall.err # ""
    /\ \A i \in 1 .. Len(outcome.trace) - 1 : outcome.trace[i].err = ""
    /\ outcome.error.message = "Failed to apply migration"
    /\ outcome.error.version = LastCall.m.version
    /\ outcome.error.description = LastCall.m.description
    /\ outcome.error.cause = LastCall.err

\* C24 witness: the ledger insert of the second migration with version 1
\* failed on the primary key.
C24_Witness ==
  /\ op = "runMigrations"
  /\ outcome.threw
  /\ LastCall.e = "insert"
  /\ LastCall.m = Alt
  /\ outcome.error.version = 1
  /\ outcome.error.description = "alt"
  /\ outcome.error.cause = "UNIQUE constraint failed: _migrations.version"

\* ------------------------------------------------- connection claims (2)
\* C25: withConnection with a config that has no dbPath opens an in-memory
\* database, runs the callback and persists nothing.
C25_OmittedPathIsMemory ==
  \A s \in ScopeIds :
    LET rec == scope[s] IN
    (/\ rec.kind = "withConnection"
     /\ rec.path = Omitted
     /\ rec.pc = "done"
     /\ rec.error # InitError)
    => /\ rec.opened
       /\ rec.initial = EmptyDb
       /\ Did(rec, "fn")
       /\ ~Did(rec, "readFile") /\ ~Did(rec, "export")
       /\ ~Did(rec, "mkdir") /\ ~Did(rec, "writeFile")
       /\ files = rec.filesBefore

\* ------------------------------------------------- migration claims (3)
\* C26: rollbackMigration(db, migrations, toVersion) rolls back to
\* toVersion: when it returns, no applied version above toVersion is left in
\* the ledger.
C26_RollsBackToVersion ==
  op = "rollbackMigration" =>
    \A toVersion \in {0} \cup Versions :
      LET r == rollbackMigrationTo(before, migrations, toVersion) IN
      ~r.threw => \A v \in LedgerVersions(r.db) : v <= toVersion

\* C27: one runMigrations call makes its engine calls one after the other:
\* the up script of a pending migration, then its ledger insert, then the
\* up script of the next pending migration in ascending version order; a
\* call starts only after the one before it has completed without error.
C27_StrictlySequential ==
  op = "runMigrations" =>
    LET t == outcome.trace IN
    /\ Len(t) <= 2 * Len(PendingBefore)
    /\ \A i \in 1 .. Len(t) :
         /\ t[i].e = (IF i % 2 = 1 THEN "up" ELSE "insert")
         /\ t[i].m = PendingBefore[(i + 1) \div 2]
         /\ i < Len(t) => t[i].err = ""
    /\ \A i, j \in 1 .. Len(t) : i < j => t[i].m.version <= t[j].m.version
    /\ ~outcome.threw => Len(t) = 2 * Len(PendingBefore)

\* C27 witness: three migrations declared out of order were applied, six
\* engine calls in version order.
C27_Witness ==
  /\ op = "runMigrations"
  /\ migrations = <<Good(3), Good(1), Good(2)>>
  /\ ~outcome.threw
  /\ Len(outcome.trace) = 6
  /\ outcome.trace[3] = Event("up", Good(2), "")
  /\ outcome.trace[4] = Event("insert", Good(2), "")

\* The versions the ledger held before the call that no declared migration
\* has.
UnknownBefore == LedgerVersions(before) \ VersionsOf(migrations)

\* The ledger rows with version v.
RowsOf(ledger, v) == SelectSeq(ledger, LAMBDA e : e.version = v)

\* C28: a version in the ledger that no declared migration has makes neither
\* getMigrationStatus nor runMigrations throw; it is in appliedMigrations
\* and counts for currentVersion, it is not in pendingMigrations, and
\* runMigrations makes no engine call for it and leaves its row as it was.
C28_AppliedButUnknown ==
  \A v \in UnknownBefore :
    /\ op = "getMigrationStatus" =>
         /\ ~outcome.threw
         /\ v \in Range(outcome.status.appliedMigrations)
         /\ outcome.status.currentVersion >= v
         /\ v \notin VersionsOf(outcome.status.pendingMigrations)
         /\ db.ledger = before.ledger
    /\ op = "runMigrations" =>
         /\ v \notin VersionsOf(PendingBefore)
         /\ \A i \in 1 .. Len(outcome.trace) : outcome.trace[i].m.version # v
         /\ v \notin VersionsOf(outcome.applied)
         /\ RowsOf(db.ledger, v) = RowsOf(before.ledger, v)
         /\ Len(RowsOf(db.ledger, v)) = 1
         /\ outcome.threw => outcome.error.version # v
         /\ StatusAfter.currentVersion >= v

\* C28 witness: version 3 is in the ledger, the declared list has version 1
\* alone, and runMigrations applied version 1 and kept version 3.
C28_Witness ==
  /\ op = "runMigrations"
  /\ LedgerVersions(before) = {3}
  /\ migrations = <<Good(1)>>
  /\ outcome.applied = <<Good(1)>>
  /\ LedgerVersions(db) = {1, 3}
  /\ StatusAfter.currentVersion = 3

\* The ledger rows the call in progress inserted: the ledger before the call
\* is the front of the ledger after it.
KeptAll ==
  /\ Len(db.ledger) >= Len(before.ledger)
  /\ SubSeq(db.ledger, 1, Len(before.ledger)) = before.ledger

\* C29: a ledger row for version v appears only in a runMigrations call
\* whose insert for a migration of version v succeeded, and disappears only
\* in a rollbackMigration call that returns a migration of version v and
\* removes no other row; getMigrationStatus and runMigrations remove no
\* row, and a rollbackMigration that returns null or throws removes none.
C29_LedgerLifecycle ==
  /\ \A v \in LedgerVersions(db) \ LedgerVersions(before) :
       /\ op = "runMigrations"
       /\ \E i \in 1 .. Len(outcome.trace) :
            /\ outcome.trace[i] = Event("insert", outcome.trace[i].m, "")
            /\ outcome.trace[i].m.version = v
            /\ i > 1
            /\ outcome.trace[i - 1] = Event("up", outcome.trace[i].m, "")
  /\ \A v \in LedgerVersions(before) \ LedgerVersions(db) :
       /\ op = "rollbackMigration"
       /\ ~outcome.threw
       /\ Len(outcome.rolledBack) = 1
       /\ outcome.rolledBack[1].version = v
       /\ db.ledger = SelectSeq(before.ledger, LAMBDA e : e.version # v)
  /\ op \in {"getMigrationStatus", "runMigrations"} => KeptAll
  /\ op = "getMigrationStatus" => db.ledger = before.ledger
  /\ (op = "rollbackMigration" /\ (outcome.threw \/ outcome.rolledBack = <<>>)) =>
       db.ledger = before.ledger
  /\ op = "rollbackMigration" => Len(db.ledger) >= Len(before.ledger) - 1

\* C29 witness: version 2 was applied before version 1; the rollback
\* removed the row of version 2, the older of the two rows, and kept the
\* other.
C29_Witness ==
  /\ op = "rollbackMigration"
  /\ Len(before.ledger) = 2
  /\ before.ledger[1].version = 2
  /\ before.ledger[2].version = 1
  /\ outcome.rolledBack = <<Good(2)>>
  /\ LedgerVersions(db) = {1}

\* C30: getMigrationStatus creates the _migrations table when it is absent
\* and changes nothing else: the rows of the table and the user tables are
\* as before, a database that has the table is left as it is, and a second
\* call with the same declared list returns the same status and changes
\* nothing.
C30_StatusIsPureRead ==
  op = "getMigrationStatus" =>
    /\ ~outcome.threw
    /\ db.hasLedger
    /\ db.ledger = before.ledger
    /\ db.tables = before.tables
    /\ before.hasLedger => db = before
    /\ ensureMigrationsTable(db) = db
    /\ StatusAfter = outcome.status
    /\ outcome.trace = <<>>

\* C30 witness: the status of a ledger with versions 1 and 3 against the
\* declared versions 2 and 1.
C30_Witness ==
  /\ op = "getMigrationStatus"
  /\ LedgerVersions(before) = {1, 3}
  /\ migrations = <<Good(2), Good(1)>>
  /\ outcome.status.pendingMigrations = <<Good(2)>>
  /\ outcome.status.appliedMigrations = <<1, 3>>
  /\ db = before

\* ------------------------------------------------- connection claims (3)
\* A migration function has changed the live handle of caller s in this
\* step.
HandleChanged(s) == scope[s].opened /\ scope'[s].opened /\ scope'[s].handle # scope[s].handle

\* This step is the completion of the writeFile of caller s.
WriteCompleted(s) ==
  /\ scope[s].pc = "writeFile"
  /\ files' = [files EXCEPT ![scope[s].path] = scope[s].buffer]
  /\ scope[s].kind = "withConnection" => Did(scope[s], "fn returned")

\* C31: a step in which a migration function changes a handle leaves every
\* file and directory as it is; a file changes only in the step that
\* completes a writeFile of saveDatabase, which in a withConnection scope
\* comes after the callback returned.
C31_MigrationsNeverPersist ==
  [][/\ \A s \in ScopeIds :
          HandleChanged(s) => (files' = files /\ dirs' = dirs)
     /\ files' # files => \E s \in ScopeIds : WriteCompleted(s)]_vars

\* C31 witness: the migrations of a callback have been applied on the
\* handle and no file exists.
C31_Witness ==
  /\ scope["A"].kind = "withConnection"
  /\ scope["A"].path \in FilePaths
  /\ scope["A"].pc = "fn"
  /\ LedgerVersions(scope["A"].handle) = {1, 2}
  /\ scope["A"].handle.tables = {1, 2}
  /\ files[scope["A"].path] = NoFile
  /\ dirs = {}

\* C32: whatever the interleaving of the calls, initSqlJs() is invoked at
\* most once; every call that is past getSql() waits for or has the promise
\* of that one invocation, and every open handle was made with its result.
C32_InitializeOnce ==
  /\ initCalls <= 1
  /\ initCalls = 0 <=> sqlPromise = "null"
  /\ \A s \in ScopeIds :
       LET rec == scope[s] IN
       /\ rec.kind # "none" => (initCalls = 1 /\ sqlPromise # "null")
       /\ rec.pc \notin {"idle", "getSql"} => sqlPromise \in {"resolved", "rejected"}
       /\ rec.opened => sqlPromise = "resolved"

\* C32 witness: a withConnection and a createConnection call are both
\* waiting for the engine while the one initSqlJs() is still pending.
C32_Witness ==
  /\ scope["A"].kind = "withConnection" /\ scope["A"].pc = "getSql"
  /\ scope["B"].kind = "createConnection" /\ scope["B"].pc = "getSql"
  /\ sqlPromise = "pending"
  /\ initCalls = 1

\* The call of s has failed with the error of the engine set-up, before it
\* read a file or invoked the callback.
FailedOnInit(rec) ==
  /\ rec.pc = "done"
  /\ rec.threw
  /\ rec.error = InitError
  /\ ~rec.opened
  /\ rec.trace = <<>>

\* C36: once initSqlJs() has failed its rejected promise stays cached: it is
\* never replaced, initSqlJs() is not invoked again, and every call ends
\* with the set-up error without a file read or written and without the
\* callback invoked.
C36_FailedInitIsCached ==
  [][sqlPromise = "rejected" =>
       /\ sqlPromise' = "rejected"
       /\ initCalls' = 1
       /\ files' = files
       /\ dirs' = dirs
       /\ \A s \in ScopeIds :
            scope'[s].pc \in {"idle", "getSql"} \/ FailedOnInit(scope'[s])]_vars

\* C36 witness: two calls have failed with the error of the one failed
\* set-up.
C36_Witness ==
  /\ sqlPromise = "rejected"
  /\ initCalls = 1
  /\ scope["A"].kind = "withConnection" /\ FailedOnInit(scope["A"])
  /\ scope["B"].kind = "createConnection" /\ FailedOnInit(scope["B"])

\* ------------------------------------------------- migration claims (4)
\* The rollbackMigration call in progress found the migration of the current
\* version with a down script, and the engine rejects that script on the
\* database as it was.
DownFails ==
  /\ op = "rollbackMigration"
  /\ CurrentBefore # 0
  /\ DeclaredCurrent # <<>>
  /\ DeclaredCurrent[1].down # NoDown
  /\ Exec(before.tables, DeclaredCurrent[1].down).err # ""

\* C34: when the down script raises, rollbackMigration throws a new error
\* with the version and the cause's message, makes no DELETE and leaves the
\* ledger as it was, so that the next rollbackMigration call takes the same
\* version and the same migration again.
C34_FailedDownKeepsEntry ==
  DownFails =>
    LET m == DeclaredCurrent[1]
        again == rollbackMigration(db, migrations)
    IN /\ outcome.threw
       /\ outcome.rolledBack = <<>>
       /\ outcome.trace = <<Event("down", m, Exec(before.tables, m.down).err)>>
       /\ outcome.error.message = "Failed to rollback migration"
       /\ outcome.error.version = CurrentBefore
       /\ outcome.error.cause = Exec(before.tables, m.down).err
       /\ db.ledger = before.ledger
       /\ StatusAfter.currentVersion = CurrentBefore
       /\ again.trace # <<>>
       /\ again.trace[1].e = "down"
       /\ again.trace[1].m = m

\* C34 witness: the down script of the alternative migration of version 1
\* dropped its table and then failed; the row of version 1 is still there.
C34_Witness ==
  /\ DownFails
  /\ DeclaredCurrent[1] = Alt
  /\ 0 \in before.tables
  /\ 0 \notin db.tables
  /\ outcome.error.cause = "syntax error"
  /\ LedgerVersions(db) = {1}

\* No two rows of the ledger have the same version.
OneRowPerVersion(ledger) ==
  \A i, j \in 1 .. Len(ledger) : ledger[i].version = ledger[j].version => i = j

\* C35 as stated: the ledger never holds two rows with one version; when
\* the pending list of a runMigrations call has two migrations with one
\* version, the first is applied and recorded, the up script of the second
\* is executed, its ledger insert fails and runMigrations throws.
C35_DuplicateReachesInsert ==
  /\ OneRowPerVersion(db.ledger)
  /\ op = "runMigrations" =>
       \A k \in 1 .. Len(PendingBefore) - 1 :
         LET first == PendingBefore[k]
             second == PendingBefore[k + 1]
         IN first.version = second.version
            => /\ Len(outcome.applied) = k
               /\ outcome.applied[k] = first
               /\ first.version \in LedgerVersions(db)
               /\ Len(outcome.trace) = 2 * k + 2
               /\ outcome.trace[2 * k + 1] = Event("up", second, "")
               /\ outcome.trace[2 * k + 2] =
                    Event("insert", second,
                          "UNIQUE constraint failed: _migrations.version")
               /\ outcome.threw

\* C35 (amended): the ledger never holds two rows with one version; when
\* the pending list of a runMigrations call has two migrations with one
\* version and the first of them is applied and recorded, the up script of
\* the second is run and runMigrations throws for the second: with the
\* error of that up script, or, when it succeeded, with the error of the
\* refused ledger insert.
C35_OneEntryPerVersion ==
  /\ OneRowPerVersion(db.ledger)
  /\ op = "runMigrations" =>
       \A k \in 1 .. Len(PendingBefore) - 1 :
         LET first == PendingBefore[k]
             second == PendingBefore[k + 1]
         IN (/\ first.version = second.version
             /\ Len(outcome.trace) >= 2 * k
             /\ outcome.trace[2 * k].err = "")
            => /\ outcome.applied[k] = first
               /\ Len(outcome.applied) = k
               /\ first.version \in LedgerVersions(db)
               /\ Len(outcome.trace) >= 2 * k + 1
               /\ outcome.trace[2 * k + 1].e = "up"
               /\ outcome.trace[2 * k + 1].m = second
               /\ outcome.threw
               /\ outcome.error.version = second.version
               /\ outcome.error.description = second.description
               /\ outcome.trace[2 * k + 1].err = "" =>
                    /\ Len(outcome.trace) = 2 * k + 2
                    /\ outcome.trace[2 * k + 2] =
                         Event("insert", second,
                               "UNIQUE constraint failed: _migrations.version")

\* C35 witness: both migrations of version 1 were pending; the first is
\* recorded, the table of the second exists and its insert was refused.
C35_Witness ==
  /\ op = "runMigrations"
  /\ migrations = <<Good(1), Alt>>
  /\ outcome.applied = <<Good(1)>>
  /\ outcome.threw
  /\ db.tables = {0, 1}
  /\ Len(db.ledger) = 1
  /\ outcome.error.cause = "UNIQUE constraint failed: _migrations.version"

\* ======================================================== query.ts
\* The statements the model's callers prepare.  The first two are the
\* queries the package itself makes (migrate.ts 38, query.ts 92); the third
\* is a caller's query whose evaluation fails on the row of version 1
\* (abs of the smallest integer); the fourth is not SQL.
SelectVersionsSql == "SELECT version FROM _migrations ORDER BY version"
SelectTableSql == "SELECT name FROM sqlite_master WHERE type='table' AND name=?"
SelectAbsSql ==
  "SELECT abs(-9223372036854775807 - version) AS a FROM _migrations ORDER BY version DESC"
MalformedSql == "SELEC version FROM _migrations"
QuerySqls == {SelectVersionsSql, SelectTableSql, SelectAbsSql, MalformedSql}

\* The statements the model's callers run with execute().
InsertSql == "INSERT INTO _migrations (version, description) VALUES (?, ?)"
DeleteSql == "DELETE FROM _migrations WHERE version = ?"
ExecuteSqls == {InsertSql, DeleteSql}

\* The scripts the model's callers run with execMultiple().
Scripts == {Good(1).up, Good(1).down, BadUp.up, BadUp.down}

\* The parameter values: a number, the text 'create' (a text carries no
\* number), and a value the engine cannot bind (undefined).
Param(v) == [type |-> "number", v |-> v]
TextParam == [type |-> "string", v |-> 0]
Unbindable == [type |-> "undefined", v |-> 0]

\* The parameter lists: none, a value that cannot be bound, one version or
\* table number, or a version and a description.
ParamLists ==
  {<<>>, <<Unbindable>>}
    \cup {<<Param(v)>> : v \in Versions}
    \cup {<<Param(v), TextParam>> : v \in Versions}

\* The number of ? in a statement.
Placeholders(sql) ==
  IF sql = InsertSql THEN 2
  ELSE IF sql \in {DeleteSql, SelectTableSql} THEN 1
  ELSE 0

\* The error object the engine throws with this message.
EngineError(message) ==
  [message |-> message, version |-> 0, description |-> "", cause |-> ""]

\* db.prepare(sql): the message of the error it throws, "" when it returns a
\* statement.
Prepare(handle, sql) ==
  IF sql = MalformedSql THEN "near \"SELEC\": syntax error"
  ELSE IF sql \in {SelectVersionsSql, SelectAbsSql} /\ ~handle.hasLedger
    THEN "no such table: _migrations"
  ELSE ""

\* stmt.bind(params): the message of the error it throws, "" when it binds.
\* Placeholders without a value stay NULL.
Bind(sql, params) ==
  IF \E i \in 1 .. Len(params) : params[i].type = "undefined"
    THEN "Wrong API use : tried to bind a value of an unknown type (undefined)."
  ELSE IF Len(params) > Placeholders(sql)
    THEN "column index out of range"
  ELSE ""

\* The versions of the ledger, descending.
Descending(handle) ==
  LET up == SelectVersions(handle)
  IN [i \in 1 .. Len(up) |-> up[Len(up) + 1 - i]]

\* The result rows of a prepared and bound statement, in result order.
ResultRows(handle, sql, params) ==
  IF sql = SelectVersionsSql
    THEN [i \in 1 .. Len(handle.ledger) |-> [version |-> SelectVersions(handle)[i]]]
  ELSE IF sql = SelectAbsSql
    THEN [i \in 1 .. Len(handle.ledger) |-> [a |-> Descending(handle)[i]]]
  ELSE IF params # <<>> /\ tableExists(handle, params[1].v)
    THEN <<[name |-> params[1].v]>>
  ELSE <<>>

\* The number of the result row at which stmt.step() throws, 0 when no step
\* throws.
StepFailsAt(handle, sql) ==
  IF sql = SelectAbsSql /\ 1 \in LedgerVersions(handle)
    THEN Len(handle.ledger)
    ELSE 0

\* stmt.getColumnNames()
ColumnNames(sql) ==
  IF sql = SelectVersionsSql THEN <<"version">>
  ELSE IF sql = SelectAbsSql THEN <<"a">>
  ELSE <<"name">>

\* The while loop of query from its i-th stmt.step(): st holds columns,
\* rows, the engine calls made, and the message of a thrown error.
RECURSIVE StepLoop(_, _, _, _, _)
StepLoop(all, failAt, names, i, st) ==
  IF i = failAt
    THEN [st EXCEPT !.calls = Append(@, Io("step", "integer overflow")),
                    !.err = "integer overflow"]
  ELSE IF i > Len(all)
    THEN [st EXCEPT !.calls = Append(@, Io("step", ""))]
  ELSE
    LET first == Len(st.columns) = 0
        stepped == Append(st.calls, Io("step", ""))
        named == IF first THEN Append(stepped, Io("getColumnNames", "")) ELSE stepped
    IN StepLoop(all, failAt, names, i + 1,
                [columns |-> IF first THEN names ELSE st.columns,
                 rows |-> Append(st.rows, all[i]),
                 calls |-> Append(named, Io("getAsObject", "")),
                 err |-> ""])

\* Mutant of StatementFinally: stmt.free() is the last statement of the try
\* block.
FreeOnReturn(calls, raised) ==
  IF raised THEN calls ELSE Append(calls, Io("free", ""))

\* query's `finally { stmt.free() }`.
StatementFinally(calls, raised) == Append(calls, Io("free", ""))

\* query(db, sql, params): what it returns or throws and the engine calls
\* it makes.
query(handle, sql, params) ==
  LET call == [NoCall EXCEPT !.fn = "query", !.sql = sql, !.params = params,
                             !.dbBefore = handle]
      prepared == Prepare(handle, sql)
      bound == Bind(sql, params)
      loop == StepLoop(ResultRows(handle, sql, params), StepFailsAt(handle, sql),
                       ColumnNames(sql), 1,
                       [columns |-> <<>>, rows |-> <<>>,
                        calls |-> <<Io("prepare", ""), Io("bind", "")>>, err |-> ""])
  IN IF prepared # ""
       THEN [call EXCEPT !.threw = TRUE, !.error = EngineError(prepared),
                         !.calls = <<Io("prepare", prepared)>>]
     ELSE IF bound # ""
       THEN [call EXCEPT !.threw = TRUE, !.error = EngineError(bound),
                         !.calls = StatementFinally(<<Io("prepare", ""), Io("bind", bound)>>, TRUE)]
     ELSE IF loop.err # ""
       THEN [call EXCEPT !.threw = TRUE, !.error = EngineError(loop.err),
                         !.calls = StatementFinally(loop.calls, TRUE)]
     ELSE [call EXCEPT !.columns = loop.columns, !.rows = loop.rows,
                       !.calls = StatementFinally(loop.calls, FALSE)]

\* db.run(sql, params) for the two statements on _migrations: the new
\* engine state, the message of the error thrown, the rows modified.
Run(handle, sql, params) ==
  LET stay == [db |-> handle, err |-> "", changes |-> 0] IN
  IF ~handle.hasLedger THEN [stay EXCEPT !.err = "no such table: _migrations"]
  ELSE IF Bind(sql, params) # "" THEN [stay EXCEPT !.err = Bind(sql, params)]
  ELSE IF sql = InsertSql /\ Len(params) < 2
    THEN [stay EXCEPT !.err = "NOT NULL constraint failed: _migrations.description"]
  ELSE IF params = <<>>
    THEN stay
  ELSE IF sql = InsertSql
    THEN LET r == InsertLedger(handle, [version |-> params[1].v, description |-> "create"])
         IN [db |-> r.db, err |-> r.err, changes |-> IF r.err = "" THEN 1 ELSE 0]
  ELSE [db |-> DeleteLedger(handle, params[1].v), err |-> "",
        changes |-> IF params[1].v \in LedgerVersions(handle) THEN 1 ELSE 0]

\* Mutant of execute: the engine's error is caught and a new one is thrown.
executeWrapped(handle, sql, params) ==
  LET r == Run(handle, sql, params)
      call == [NoCall EXCEPT !.fn = "execute", !.sql = sql, !.params = params,
                             !.dbBefore = handle]
  IN IF r.err # ""
       THEN [call EXCEPT !.threw = TRUE,
                         !.error = [EngineError("execute failed") EXCEPT !.cause = r.err],
                         !.calls = <<Io("run", r.err)>>]
       ELSE [call EXCEPT !.changes = r.changes,
                         !.calls = <<Io("run", ""), Io("getRowsModified", "")>>]

\* execute(db, sql, params): what it returns or throws and the engine calls
\* it makes.
execute(handle, sql, params) ==
  LET r == Run(handle, sql, params)
      call == [NoCall EXCEPT !.fn = "execute", !.sql = sql, !.params = params,
                             !.dbBefore = handle]
  IN IF r.err # ""
       THEN [call EXCEPT !.threw = TRUE, !.error = EngineError(r.err),
                         !.calls = <<Io("run", r.err)>>]
       ELSE [call EXCEPT !.changes = r.changes,
                         !.calls = <<Io("run", ""), Io("getRowsModified", "")>>]

\* A call of query(db, sql, params).
Query(sql, params) ==
  /\ executor' = query(db, sql, params)
  /\ UNCHANGED <<db, before, op, migrations, outcome, connectionVars>>

\* A call of execute(db, sql, params).
Execute(sql, params) ==
  /\ executor' = execute(db, sql, params)
  /\ db' = Run(db, sql, params).db
  /\ UNCHANGED <<before, op, migrations, outcome, connectionVars>>

\* A call of execMultiple(db, script).
ExecMultiple(script) ==
  LET r == execMultiple(db, script) IN
  /\ executor' = [NoCall EXCEPT !.fn = "execMultiple", !.script = script,
                                !.dbBefore = db, !.threw = r.err # "",
                                !.error = IF r.err # "" THEN EngineError(r.err) ELSE NoError,
                                !.calls = <<Io("exec", r.err)>>]
  /\ db' = r.db
  /\ UNCHANGED <<before, op, migrations, outcome, connectionVars>>

\* A call of execMultiple(db, MIGRATIONS_TABLE_SQL).
EnsureTable ==
  /\ executor' = [NoCall EXCEPT !.fn = "execMultiple", !.dbBefore = db,
                                !.calls = <<Io("exec", "")>>]
  /\ db' = ensureMigrationsTable(db)
  /\ UNCHANGED <<before, op, migrations, outcome, connectionVars>>

QueryNext ==
  \/ \E sql \in QuerySqls, params \in ParamLists : Query(sql, params)
  \/ \E sql \in ExecuteSqls, params \in ParamLists : Execute(sql, params)
  \/ \E script \in Scripts : ExecMultiple(script)
  \/ EnsureTable

QuerySpec == Init /\ [][QueryNext]_vars

\* ------------------------------------------------- executor claims
\* The engine calls of the last executor call that threw.
FailedCalls == SelectSeq(executor.calls, LAMBDA c : c.code # "")

\* How often the last executor call made the engine call e.
TimesCalled(e) == Len(SelectSeq(executor.calls, LAMBDA c : c.e = e))

\* The message of the error the engine raises for the last executor call on
\* the database it was given, "" when the engine raises none.
NativeError ==
  IF executor.fn = "query"
    THEN IF Prepare(executor.dbBefore, executor.sql) # ""
           THEN Prepare(executor.dbBefore, executor.sql)
         ELSE IF Bind(executor.sql, executor.params) # ""
           THEN Bind(executor.sql, executor.params)
         ELSE IF StepFailsAt(executor.dbBefore, executor.sql) # 0
           THEN "integer overflow"
         ELSE ""
  ELSE IF executor.fn = "execute"
    THEN Run(executor.dbBefore, executor.sql, executor.params).err
  ELSE Exec(executor.dbBefore.tables, executor.script).err

\* C33: query, execute and execMultiple throw exactly when an engine call
\* of theirs throws, and then the caller gets the engine's own error; the
\* failing call is made once and no statement is prepared, run or executed
\* a second time.
C33_EngineErrorsPassThrough ==
  executor.fn # "none" =>
    /\ executor.threw <=> NativeError # ""
    /\ executor.threw =>
         /\ Len(FailedCalls) = 1
         /\ executor.error = EngineError(FailedCalls[1].code)
         /\ executor.error = EngineError(NativeError)
    /\ ~executor.threw => (FailedCalls = <<>> /\ executor.error = NoError)
    /\ TimesCalled("prepare") <= 1
    /\ TimesCalled("bind") <= 1
    /\ TimesCalled("run") <= 1
    /\ TimesCalled("exec") <= 1
    /\ \A i \in 1 .. Len(executor.calls) :
         executor.calls[i].code # "" =>
           \A j \in i + 1 .. Len(executor.calls) : executor.calls[j].e = "free"

\* C33 witness: an INSERT of a version the ledger has was refused and
\* execute threw the engine's constraint error.
C33_Witness ==
  /\ executor.fn = "execute"
  /\ executor.sql = InsertSql
  /\ executor.threw
  /\ executor.error = EngineError("UNIQUE constraint failed: _migrations.version")
  /\ db = executor.dbBefore

\* C37: query frees the statement exactly once, as its last engine call,
\* when prepare returned one: after the rows were read, after bind threw and
\* after step threw; when prepare threw, no other engine call is made.
C37_StatementReleased ==
  executor.fn = "query" =>
    /\ executor.calls # <<>>
    /\ executor.calls[1].e = "prepare"
    /\ executor.calls[1].code # "" =>
         (Len(executor.calls) = 1 /\ TimesCalled("free") = 0)
    /\ executor.calls[1].code = "" =>
         /\ TimesCalled("free") = 1
         /\ executor.calls[Len(executor.calls)] = Io("free", "")

\* C37 witness: two rows were read, the third step threw, and the statement
\* was freed.
C37_Witness ==
  /\ executor.fn = "query"
  /\ executor.threw
  /\ TimesCalled("getAsObject") = 2
  /\ executor.calls[Len(executor.calls) - 1] = Io("step", "integer overflow")
  /\ executor.calls[Len(executor.calls)] = Io("free", "")

\* C38: a query that returns gives the rows of the statement in result
\* order and the column names of the statement, also when there is no row.
C38_ColumnsAndRows ==
  (executor.fn = "query" /\ ~executor.threw) =>
    /\ executor.rows = ResultRows(executor.dbBefore, executor.sql, executor.params)
    /\ executor.columns = ColumnNames(executor.sql)

====
